---- MODULE Spec2Model ----
(***************************************************************************)
(* Model of the email-service delivery pipeline: the queue consumer        *)
(* (EmailController), the orchestrator (EmailService), the lookup         *)
(* services with their Redis caches, the mail sender and the circuit      *)
(* breaker that wraps it.  Every action is one run-to-completion segment  *)
(* of the Node.js event loop: the code from the resolution of one awaited *)
(* I/O call up to the next one it issues.                                 *)
(***************************************************************************)
EXTENDS Integers, Sequences, FiniteSets, TLC

\* ------------------------------------------------------------------------
\* Program constants
\* ------------------------------------------------------------------------
FAILURE_THRESHOLD == 5
SUCCESS_THRESHOLD == 2
TIMEOUT == 60000
HALF_OPEN_MAX_CALLS == 3
MAX_RETRY_ATTEMPTS == 3
MAX_ATTEMPTS == 3
INITIAL_DELAY_MS == 1000
MAX_DELAY_MS == 300000
BACKOFF_MULTIPLIER == 2

\* ------------------------------------------------------------------------
\* Bounds of the model
\* ------------------------------------------------------------------------
\* the clock stops advancing here
MaxNow == 120000
\* resetCircuit calls per behaviour
MaxResets == 1
\* copies of one request id the producer publishes
MaxPublish == 2
\* handler invocations per behaviour, with concurrent workers
MaxDeliveries == 2
\* handler invocations per behaviour, with one worker
MaxSeqDeliveries == 4
\* handler invocations per behaviour, next to direct callers of RetryService or
\* of CircuitBreakerService
MaxRetryDeliveries == 1
\* recordRetry is not called once an attempt_count, stored or about to be, is this
MaxAttemptCount == 10
\* the same, next to the consumer
MaxCtlAttemptCount == 3
\* the same, for calls made one after another with distinguishable error texts
MaxSeqAttemptCount == 3
\* Math.random() returns one of 0, 1/RandomSteps, .., (RandomSteps - 1)/RandomSteps
RandomSteps == 2

\* circuit names: sendEmail uses "email_send"; "x" is any other protected operation
CircuitNames == {"email_send", "x"}
\* concurrent tasks of the process: the handler invocations of the consumer, or the
\* direct callers of CircuitBreakerService.execute and EmailSender.sendEmail
Workers == {"w1", "w2"}
\* the callers of CircuitBreakerService.execute when more than HALF_OPEN_MAX_CALLS
\* of them run at the same time
Callers == {"w1", "w2", "w3", "w4"}
\* the request ids of the messages published to email.queue
RequestIds == {"r1"}
\* the message ids the mail transport hands out
MessageIds == {"m1"}
\* amounts of time that pass between two events
TickSteps == {30000}
\* the error texts handed to recordRetry
Errors == {"e1"}
\* the same, for calls made one after another
SeqErrors == {"e1", "e2"}

VARIABLES
    now,        \* Date.now()
    circuits,   \* CircuitBreakerService.circuits: name -> index into heap, 0 = no entry
    heap,       \* the CircuitBreaker objects allocated so far
    resets,     \* number of resetCircuit calls made
    cbPc,       \* per caller: "idle" or "running" (its operation is in flight)
    cbName,     \* per caller: the circuit_name of its execute call
    cbRef,      \* per caller: the object its local `circuit` refers to
    cbResult,   \* per caller: how its last execute call ended
    streak,     \* per CircuitBreaker object: operation failures reported to it since
                \* the last success reported to it, or since it was created
    cbTrial,    \* per caller: -1, or for an operation admitted on an OPEN or HALF_OPEN
                \* circuit the next_attempt_time of that circuit (its half-open episode)
    consecFail, \* consecutive transporter.sendMail rejections, saturating at FAILURE_THRESHOLD
    redisUp,    \* whether the Redis client reaches the store
    processed,  \* Redis processed:<request_id>: the stored message id, "null" = no key
    retry,      \* Redis retry:<request_id>: << >> = no key, else <<RetryMetadata>>
    statusCache,\* Redis status:<notification_id>: "set" or "null" = no key (the service
                \* never reads the key back, so its value is not kept)
    userCache,  \* Redis user:<user_id>: the cached preference, "null" = no key
    templateCache, \* Redis template:<template_code>: "found" or "null" = no key
    ready,      \* per request id: copies of the message waiting in email.queue
    published,  \* per request id: copies published so far
    deliveries, \* handler invocations so far
    wk,         \* per worker: the state of its handleEmailNotification invocation, or
                \* of its recordRetry call
    last,       \* the invocation that completed last, as it ended
    requeues,   \* per request id: nack(requeue = true) calls so far
    sends,      \* per request id: messages the mail transport accepted so far
    sendFails,  \* per request id: calls that ended in a refused send so far
    marks,      \* per request id: writes of processed:<request_id> so far
    overlap,    \* per request id: two invocations for it were in progress together
    idemFault,  \* per request id: a read of processed:<request_id> failed
    expired     \* per request id: processed:<request_id> has expired once

cbVars == <<circuits, heap, cbPc, cbName, cbRef, cbResult, streak, cbTrial>>
cbEnv == <<now, resets, consecFail>>
kvVars == <<processed, retry, statusCache, userCache, templateCache>>
queueVars == <<ready, published, deliveries>>
ghostVars == <<requeues, sends, sendFails, marks, overlap, idemFault, expired>>
wkVars == <<wk, last>>
pipeVars == <<redisUp, kvVars, queueVars, wkVars, ghostVars>>
vars == <<cbVars, cbEnv, pipeVars>>

\* ------------------------------------------------------------------------
\* CircuitBreakerService
\* ------------------------------------------------------------------------
\* the record getOrCreateCircuit stores for a new name.  last_failure_time is
\* left out: the service writes it and nothing ever reads it.
NewCircuit ==
    [state |-> "CLOSED", failure_count |-> 0, success_count |-> 0,
     next_attempt_time |-> 0]

\* getOrCreateCircuit: the heap after the call, and the object it returns
getOrCreateCircuitHeap(name) ==
    IF circuits[name] = 0 THEN Append(heap, NewCircuit) ELSE heap

getOrCreateCircuit(name) ==
    IF circuits[name] = 0 THEN Len(heap) + 1 ELSE circuits[name]

\* an OPEN check with the comparison of the clock turned around
isRejectedInverted(circuit, t) ==
    circuit.state = "OPEN" /\ t > circuit.next_attempt_time

\* execute, lines 35-44: the call is rejected
isRejected(circuit, t) ==
    circuit.state = "OPEN" /\ t < circuit.next_attempt_time

\* an execute that makes every admitted call a half-open probe
admitAnyState(circuit) == [circuit EXCEPT !.state = "HALF_OPEN", !.success_count = 0]

\* an execute that lets the call through and leaves the circuit OPEN
admitStaysOpen(circuit) == circuit

\* execute, lines 35-52: the circuit after an admitted call passed the OPEN check
admit(circuit) ==
    IF circuit.state = "OPEN"
    THEN [circuit EXCEPT !.state = "HALF_OPEN", !.success_count = 0]
    ELSE circuit

\* an onSuccess that leaves failure_count as it is
onSuccessKeepsFailures(circuit) ==
    LET c2 == [circuit EXCEPT !.success_count = @ + 1]
    IN  IF circuit.state = "HALF_OPEN"
        THEN IF c2.success_count >= SUCCESS_THRESHOLD
             THEN [c2 EXCEPT !.state = "CLOSED", !.success_count = 0]
             ELSE c2
        ELSE circuit

\* an onSuccess that closes the circuit one success late
onSuccessLate(circuit) ==
    LET c1 == [circuit EXCEPT !.failure_count = 0]
        c2 == [c1 EXCEPT !.success_count = @ + 1]
    IN  IF c1.state = "HALF_OPEN"
        THEN IF c2.success_count > SUCCESS_THRESHOLD
             THEN [c2 EXCEPT !.state = "CLOSED", !.success_count = 0]
             ELSE c2
        ELSE c1

onSuccess(circuit) ==
    LET c1 == [circuit EXCEPT !.failure_count = 0]
        c2 == [c1 EXCEPT !.success_count = @ + 1]
    IN  IF c1.state = "HALF_OPEN"
        THEN IF c2.success_count >= SUCCESS_THRESHOLD
             THEN [c2 EXCEPT !.state = "CLOSED", !.success_count = 0]
             ELSE c2
        ELSE c1

\* an onFailure that counts every failure twice
onFailureDoubleCount(circuit, t) ==
    LET c1 == [circuit EXCEPT !.failure_count = @ + 2]
    IN  IF c1.state = "HALF_OPEN"
        THEN [c1 EXCEPT !.state = "OPEN", !.next_attempt_time = t + TIMEOUT,
                        !.success_count = 0]
        ELSE IF c1.failure_count >= FAILURE_THRESHOLD
             THEN [c1 EXCEPT !.state = "OPEN", !.next_attempt_time = t + TIMEOUT]
             ELSE c1

\* an onFailure that reopens a HALF_OPEN circuit only at the failure threshold
onFailureThresholdOnly(circuit, t) ==
    LET c1 == [circuit EXCEPT !.failure_count = @ + 1]
    IN  IF c1.failure_count >= FAILURE_THRESHOLD
        THEN [c1 EXCEPT !.state = "OPEN", !.next_attempt_time = t + TIMEOUT]
        ELSE c1

\* an onFailure that opens the circuit one failure late
onFailureLate(circuit, t) ==
    LET c1 == [circuit EXCEPT !.failure_count = @ + 1]
    IN  IF c1.state = "HALF_OPEN"
        THEN [c1 EXCEPT !.state = "OPEN", !.next_attempt_time = t + TIMEOUT,
                        !.success_count = 0]
        ELSE IF c1.failure_count > FAILURE_THRESHOLD
             THEN [c1 EXCEPT !.state = "OPEN", !.next_attempt_time = t + TIMEOUT]
             ELSE c1

onFailure(circuit, t) ==
    LET c1 == [circuit EXCEPT !.failure_count = @ + 1]
    IN  IF c1.state = "HALF_OPEN"
        THEN [c1 EXCEPT !.state = "OPEN", !.next_attempt_time = t + TIMEOUT,
                        !.success_count = 0]
        ELSE IF c1.failure_count >= FAILURE_THRESHOLD
             THEN [c1 EXCEPT !.state = "OPEN", !.next_attempt_time = t + TIMEOUT]
             ELSE c1

\* execute up to `await operation()`: the caller's segment that looks the circuit
\* up, rejects the call or lets the operation start
executeBegin(c, name) ==
    LET h   == getOrCreateCircuitHeap(name)
        ref == getOrCreateCircuit(name)
    IN  /\ cbPc[c] = "idle"
        /\ circuits' = [circuits EXCEPT ![name] = ref]
        /\ streak' = IF circuits[name] = 0 THEN Append(streak, 0) ELSE streak
        /\ IF isRejected(h[ref], now)
           THEN /\ heap' = h
                /\ cbResult' = [cbResult EXCEPT ![c] = "rejected"]
                /\ UNCHANGED <<cbPc, cbName, cbRef, cbTrial>>
           ELSE /\ heap' = [h EXCEPT ![ref] = admit(@)]
                /\ cbTrial' = [cbTrial EXCEPT ![c] =
                                  IF h[ref].state = "CLOSED" THEN -1
                                  ELSE h[ref].next_attempt_time]
                /\ cbPc' = [cbPc EXCEPT ![c] = "running"]
                /\ cbName' = [cbName EXCEPT ![c] = name]
                /\ cbRef' = [cbRef EXCEPT ![c] = ref]
                /\ cbResult' = [cbResult EXCEPT ![c] = "none"]

\* an execute that reports every outcome to the circuit as a success
executeEndAlwaysSucceeds(c, ok, result) ==
    /\ cbPc[c] = "running"
    /\ heap' = [heap EXCEPT ![cbRef[c]] = onSuccess(@)]
    /\ cbPc' = [cbPc EXCEPT ![c] = "idle"]
    /\ cbName' = [cbName EXCEPT ![c] = "none"]
    /\ cbRef' = [cbRef EXCEPT ![c] = 0]
    /\ cbResult' = [cbResult EXCEPT ![c] = result]
    /\ streak' = [streak EXCEPT ![cbRef[c]] = IF ok THEN 0 ELSE @ + 1]
    /\ cbTrial' = [cbTrial EXCEPT ![c] = -1]
    /\ UNCHANGED circuits

\* an execute that looks the circuit up by name again when the operation settles
executeEndByName(c, ok, result) ==
    LET ref == IF circuits[cbName[c]] = 0 THEN cbRef[c] ELSE circuits[cbName[c]]
    IN  /\ cbPc[c] = "running"
        /\ heap' = [heap EXCEPT ![ref] = IF ok THEN onSuccess(@) ELSE onFailure(@, now)]
        /\ cbPc' = [cbPc EXCEPT ![c] = "idle"]
        /\ cbName' = [cbName EXCEPT ![c] = "none"]
        /\ cbRef' = [cbRef EXCEPT ![c] = 0]
        /\ cbResult' = [cbResult EXCEPT ![c] = result]
        /\ streak' = [streak EXCEPT ![ref] = IF ok THEN 0 ELSE @ + 1]
        /\ cbTrial' = [cbTrial EXCEPT ![c] = -1]
        /\ UNCHANGED circuits

\* execute after `await operation()`: the operation's outcome is reported to the
\* circuit object the call captured, then returned or rethrown
executeEnd(c, ok, result) ==
    /\ cbPc[c] = "running"
    /\ heap' = [heap EXCEPT ![cbRef[c]] = IF ok THEN onSuccess(@) ELSE onFailure(@, now)]
    /\ cbPc' = [cbPc EXCEPT ![c] = "idle"]
    /\ cbName' = [cbName EXCEPT ![c] = "none"]
    /\ cbRef' = [cbRef EXCEPT ![c] = 0]
    /\ cbResult' = [cbResult EXCEPT ![c] = result]
    /\ streak' = [streak EXCEPT ![cbRef[c]] = IF ok THEN 0 ELSE @ + 1]
    /\ cbTrial' = [cbTrial EXCEPT ![c] = -1]
    /\ UNCHANGED circuits

\* ------------------------------------------------------------------------
\* The breaker and the sender driven directly by their callers
\* ------------------------------------------------------------------------
\* execute(operation, "x") is called
CallExecute(c) ==
    /\ executeBegin(c, "x")
    /\ UNCHANGED <<cbEnv, pipeVars>>

\* the wrapped operation resolves
OperationResolves(c) ==
    /\ cbName[c] = "x"
    /\ executeEnd(c, TRUE, "ok")
    /\ UNCHANGED <<cbEnv, pipeVars>>

\* the wrapped operation rejects
OperationRejects(c) ==
    /\ cbName[c] = "x"
    /\ executeEnd(c, FALSE, "error")
    /\ UNCHANGED <<cbEnv, pipeVars>>

\* EmailSender.sendEmail is called: execute(<send through the transporter>, "email_send")
CallSendEmail(c) ==
    /\ executeBegin(c, "email_send")
    /\ UNCHANGED <<cbEnv, pipeVars>>

\* transporter.sendMail resolves: the operation returns {success: true, message_id}
SendMailResolves(c) ==
    /\ cbName[c] = "email_send"
    /\ executeEnd(c, TRUE, "sent")
    /\ consecFail' = 0
    /\ UNCHANGED <<now, resets, pipeVars>>

\* transporter.sendMail rejects: the operation catches the error and returns
\* {success: false, error}, so execute sees it resolve
SendMailRejects(c) ==
    /\ cbName[c] = "email_send"
    /\ executeEnd(c, TRUE, "send_failed")
    /\ consecFail' = IF consecFail < FAILURE_THRESHOLD THEN consecFail + 1 ELSE consecFail
    /\ UNCHANGED <<now, resets, pipeVars>>

\* another caller of the service runs execute(operation, "email_send")
CallExecuteEmailSend(c) ==
    /\ executeBegin(c, "email_send")
    /\ UNCHANGED <<cbEnv, pipeVars>>

\* that caller's operation rejects
EmailSendOperationRejects(c) ==
    /\ cbName[c] = "email_send"
    /\ executeEnd(c, FALSE, "error")
    /\ UNCHANGED <<cbEnv, pipeVars>>

resetCircuit(name) ==
    /\ resets < MaxResets
    /\ circuits' = [circuits EXCEPT ![name] = 0]
    /\ resets' = resets + 1
    /\ UNCHANGED <<now, heap, cbPc, cbName, cbRef, cbResult, streak, cbTrial, consecFail,
                   pipeVars>>

Tick(d) ==
    /\ now + d <= MaxNow
    /\ now' = now + d
    /\ UNCHANGED <<cbVars, resets, consecFail, pipeVars>>

\* ------------------------------------------------------------------------
\* RedisService, and the results and statuses the orchestrator handles
\* ------------------------------------------------------------------------
\* a get that answers from the store whatever the state of the connection
getAlwaysAnswers(value) == value

\* RedisService.get: the stored value, or null when the client call throws
get(value) == IF redisUp THEN value ELSE "null"

\* a checkIdempotency that also reports a request another invocation has in hand
checkIdempotencyInProgress(r) ==
    \/ get(processed[r]) # "null"
    \/ \E v \in Workers :
          wk[v].req = r /\ wk[v].pc \notin {"idle", "idem_get", "rr_get", "rr_set"}

\* a checkIdempotency that reads another key than markAsProcessed writes
checkIdempotencyWrongKey(r) == get("null") # "null"

\* EmailService.checkIdempotency: whether the read of processed:<request_id>
\* returns a value
checkIdempotency(r) == get(processed[r]) # "null"

\* RetryService.getRetryCount: 0 without metadata, else the stored attempt_count
getRetryCount(r) ==
    IF redisUp /\ retry[r] # << >> THEN retry[r][1].attempt_count ELSE 0

\* a shouldRetry that allows one attempt more
shouldRetryInclusive(r) == getRetryCount(r) <= MAX_RETRY_ATTEMPTS

\* EmailService.shouldRetry
shouldRetry(r) == getRetryCount(r) < MAX_RETRY_ATTEMPTS

\* RetryService.shouldRetry
RetryService_shouldRetry(r) == getRetryCount(r) < MAX_ATTEMPTS

\* a calculateBackoff without the cap of MAX_DELAY_MS
calculateBackoffUncapped(attempt_count, rnd) ==
    LET delay == INITIAL_DELAY_MS * BACKOFF_MULTIPLIER ^ (attempt_count - 1)
    IN  delay + (delay * 2 * rnd) \div (10 * RandomSteps)

\* RetryService.calculateBackoff, with Math.random() = rnd / RandomSteps:
\* Math.floor(delay + delay * 0.2 * Math.random())
calculateBackoff(attempt_count, rnd) ==
    LET exp   == INITIAL_DELAY_MS * BACKOFF_MULTIPLIER ^ (attempt_count - 1)
        delay == IF exp < MAX_DELAY_MS THEN exp ELSE MAX_DELAY_MS
    IN  delay + (delay * 2 * rnd) \div (10 * RandomSteps)

\* recordRetry with errors.unshift(error) in place of errors.push(error)
retryDataAfterPrepend(existing, r, e, t, rnd) ==
    LET d == IF existing # << >>
             THEN [existing[1] EXCEPT !.attempt_count = @ + 1, !.last_attempt_at = t,
                                      !.errors = <<e>> \o @]
             ELSE [request_id |-> r, attempt_count |-> 1, first_attempt_at |-> t,
                   last_attempt_at |-> t, next_retry_at |-> t, errors |-> <<e>>]
    IN  [d EXCEPT !.next_retry_at = t + calculateBackoff(d.attempt_count, rnd)]

\* recordRetry, lines 41-62: the RetryMetadata to store, from the value read
retryDataAfter(existing, r, e, t, rnd) ==
    LET d == IF existing # << >>
             THEN [existing[1] EXCEPT !.attempt_count = @ + 1, !.last_attempt_at = t,
                                      !.errors = Append(@, e)]
             ELSE [request_id |-> r, attempt_count |-> 1, first_attempt_at |-> t,
                   last_attempt_at |-> t, next_retry_at |-> t, errors |-> <<e>>]
    IN  [d EXCEPT !.next_retry_at = t + calculateBackoff(d.attempt_count, rnd)]

\* EmailSendResult values
Success(id) == [success |-> TRUE, message_id |-> id, error |-> ""]

Failure(err) == [success |-> FALSE, message_id |-> "", error |-> err]

\* a worker that handles no message
IdleWorker ==
    [pc |-> "idle", req |-> "none", user |-> "null", result |-> Failure(""),
     emits |-> << >>, ack |-> "none", sent |-> "none", cause |-> "none",
     error |-> "none", retryData |-> << >>, template |-> "null"]

\* whether a worker is inside handleEmailNotification
inHandler(s) == s.pc \notin {"idle", "rr_get", "rr_set"}

\* a pipeline that goes on to markAsProcessed after a FAILED status as well
statusSetPcMarksFailed(status) ==
    CASE status = "pending" -> "pending_set"
      [] status = "delivered" -> "delivered_set"
      [] OTHER -> "mark_set"

\* where a worker waits for the status:<id> write of updateStatus(status)
statusSetPc(status) ==
    CASE status = "pending" -> "pending_set"
      [] status = "delivered" -> "delivered_set"
      [] OTHER -> "failed_set"

\* an updateStatus that lets a failing emit escape to the catch block of its caller
updateStatusThrows(s, status, emitOk, next) ==
    IF emitOk
    THEN [s EXCEPT !.emits = Append(@, status), !.pc = statusSetPc(status)]
    ELSE [s EXCEPT !.emits = Append(Append(@, status), "failed"),
                   !.result = Failure("emit_error"), !.pc = "retry_get"]

\* EmailService.updateStatus up to its await: the emit, then the cache write is
\* issued; when emit throws the error is swallowed and the caller goes on to `next`
updateStatus(s, status, emitOk, next) ==
    [s EXCEPT !.emits = Append(@, status),
              !.pc = IF emitOk THEN statusSetPc(status) ELSE next]

\* a handler that consults shouldRetry whatever the result
returnedAlwaysAsks(s) == [s EXCEPT !.pc = "retry_get"]

\* EmailController.handleEmailNotification, lines 26-34: processEmailNotification
\* has returned s.result; ack on success, else shouldRetry is awaited
returned(s) ==
    IF s.result.success
    THEN [s EXCEPT !.ack = "ack", !.pc = "idle"]
    ELSE [s EXCEPT !.pc = "retry_get"]

\* a catch block that returns the failure without a status update
catchSilent(s, err, cause, emitOk) ==
    [s EXCEPT !.result = Failure(err), !.cause = cause, !.pc = "retry_get"]

\* processEmailNotification, lines 121-140: the catch block
catch(s, err, cause, emitOk) ==
    updateStatus([s EXCEPT !.result = Failure(err), !.cause = cause],
                 "failed", emitOk, "retry_get")

\* a preference check that lets every user that was found through
afterUserIgnoresPreference(s, user, emitOk) ==
    IF user = "null"
    THEN [s EXCEPT !.result = Failure("User not found"), !.cause = "subject_not_found",
                   !.emits = Append(@, "failed"),
                   !.pc = IF emitOk THEN "failed_set" ELSE "retry_get"]
    ELSE [s EXCEPT !.pc = "tmpl_cache_get"]

\* processEmailNotification, lines 57-81: the user lookup has returned `user`
afterUser(s, user, emitOk) ==
    IF user = "null"
    THEN catch(s, "User not found", "subject_not_found", emitOk)
    ELSE IF user = "disabled"
         THEN updateStatus([s EXCEPT !.result = Failure("User preferences disabled"),
                                     !.cause = "preference_disabled"],
                           "failed", emitOk, "retry_get")
         ELSE [s EXCEPT !.pc = "tmpl_cache_get"]

\* ------------------------------------------------------------------------
\* The consumer: one handleEmailNotification invocation per delivery
\* ------------------------------------------------------------------------
\* worker w goes on as t; an invocation that has acknowledged its message is over
settle(w, t) ==
    /\ wk' = [wk EXCEPT ![w] = IF t.pc = "idle" THEN IdleWorker ELSE t]
    /\ last' = IF t.pc = "idle" THEN t ELSE last

\* the producer publishes a message with request id r
Publish(r) ==
    /\ published[r] < MaxPublish
    /\ published' = [published EXCEPT ![r] = @ + 1]
    /\ ready' = [ready EXCEPT ![r] = @ + 1]
    /\ UNCHANGED <<cbVars, cbEnv, redisUp, kvVars, deliveries, wkVars, ghostVars>>

\* the broker delivers a copy to an idle worker: the handler starts and
\* checkIdempotency issues the read of processed:<request_id>
Deliver(w, r, max) ==
    /\ wk[w].pc = "idle"
    /\ ready[r] > 0
    /\ deliveries < max
    /\ ready' = [ready EXCEPT ![r] = @ - 1]
    /\ deliveries' = deliveries + 1
    /\ wk' = [wk EXCEPT ![w] = [IdleWorker EXCEPT !.pc = "idem_get", !.req = r]]
    /\ overlap' = [overlap EXCEPT ![r] =
                      @ \/ \E v \in Workers \ {w} : inHandler(wk[v]) /\ wk[v].req = r]
    /\ UNCHANGED <<cbVars, cbEnv, redisUp, kvVars, published, last,
                   requeues, sends, sendFails, marks, idemFault, expired>>

\* processEmailNotification, lines 40-56: the idempotency read resolves
IdemGet(w) ==
    LET s == wk[w]
        r == s.req
    IN  /\ s.pc = "idem_get"
        /\ idemFault' = [idemFault EXCEPT ![r] = @ \/ ~redisUp]
        /\ IF checkIdempotency(r)
           THEN settle(w, returned([s EXCEPT !.result = Success("duplicate")]))
           ELSE \E emitOk \in BOOLEAN :
                   settle(w, updateStatus(s, "pending", emitOk, "user_cache_get"))
        /\ UNCHANGED <<cbVars, cbEnv, redisUp, kvVars, queueVars,
                       requeues, sends, sendFails, marks, overlap, expired>>

\* updateStatus, lines 184-190: the status:<id> write resolves or throws (swallowed)
StatusCacheSet(w) ==
    LET s == wk[w]
    IN  /\ s.pc \in {"pending_set", "delivered_set", "failed_set"}
        /\ statusCache' = IF redisUp
                          THEN [statusCache EXCEPT ![s.req] = "set"]
                          ELSE statusCache
        /\ settle(w, [s EXCEPT !.pc =
                     CASE s.pc = "pending_set" -> "user_cache_get"
                       [] s.pc = "delivered_set" -> "mark_set"
                       [] OTHER -> "retry_get"])
        /\ UNCHANGED <<cbVars, cbEnv, redisUp, processed, retry, userCache, templateCache,
                       queueVars, ghostVars>>

\* UserService.getUserById, lines 152-170: the cache read resolves
UserCacheGet(w) ==
    LET s == wk[w]
    IN  /\ s.pc = "user_cache_get"
        /\ IF get(userCache) # "null"
           THEN \E emitOk \in BOOLEAN :
                   settle(w, afterUser([s EXCEPT !.user = userCache], userCache, emitOk))
           ELSE settle(w, [s EXCEPT !.pc = "user_http"])
        /\ UNCHANGED <<cbVars, cbEnv, redisUp, kvVars, queueVars, ghostVars>>

\* a handler whose not-found path records a retry before it fails
UserHttpRecordsRetry(w) ==
    LET s == wk[w]
    IN  /\ s.pc = "user_http"
        /\ \E emitOk \in BOOLEAN :
              \/ /\ \E pref \in {"enabled", "disabled"} :
                       settle(w, [s EXCEPT !.user = pref, !.pc = "user_cache_set"])
                 /\ retry' = retry
              \/ /\ settle(w, afterUser(s, "null", emitOk))
                 /\ retry' = [retry EXCEPT ![s.req] =
                        <<retryDataAfter(retry[s.req], s.req, "e1", now, 0)>>]
              \/ /\ settle(w, catch(s, "lookup_error", "user_lookup_error", emitOk))
                 /\ retry' = retry
        /\ UNCHANGED <<cbVars, cbEnv, redisUp, processed, statusCache, userCache,
                       templateCache, queueVars, ghostVars>>

\* getUserById, lines 160-197: the user service answers
UserHttp(w) ==
    LET s == wk[w]
    IN  /\ s.pc = "user_http"
        /\ \E emitOk \in BOOLEAN :
              \/ \E pref \in {"enabled", "disabled"} :
                    settle(w, [s EXCEPT !.user = pref, !.pc = "user_cache_set"])
              \/ settle(w, afterUser(s, "null", emitOk))
              \/ settle(w, catch(s, "lookup_error", "user_lookup_error", emitOk))
        /\ UNCHANGED <<cbVars, cbEnv, redisUp, kvVars, queueVars, ghostVars>>

\* getUserById, lines 175-197: the user:<id> write resolves, or throws and the
\* error is rethrown to processEmailNotification
UserCacheSet(w) ==
    LET s == wk[w]
    IN  /\ s.pc = "user_cache_set"
        /\ \E emitOk \in BOOLEAN :
              IF redisUp
              THEN /\ userCache' = s.user
                   /\ settle(w, afterUser(s, s.user, emitOk))
              ELSE /\ userCache' = userCache
                   /\ settle(w, catch(s, "redis_error", "user_cache_write_error", emitOk))
        /\ UNCHANGED <<cbVars, cbEnv, redisUp, processed, retry, statusCache, templateCache,
                       queueVars, ghostVars>>

\* processEmailNotification, lines 86-98, with sendEmail and execute up to the
\* transporter call: render, then the breaker rejects the send or lets it start
renderAndSend(w, s, renderOk, emitOk) ==
    IF renderOk
    THEN /\ executeBegin(w, "email_send")
         /\ settle(w,
                      IF isRejected(getOrCreateCircuitHeap("email_send")
                                        [getOrCreateCircuit("email_send")], now)
                      THEN catch(s, "Circuit breaker is OPEN for email_send",
                                 "breaker_open", emitOk)
                      ELSE [s EXCEPT !.pc = "send_mail"])
    ELSE /\ settle(w, catch(s, "render_error", "render_error", emitOk))
         /\ UNCHANGED cbVars

\* TemplateService.getTemplate, lines 29-44: the cache read resolves
TemplateCacheGet(w) ==
    LET s == wk[w]
    IN  /\ s.pc = "tmpl_cache_get"
        /\ IF get(templateCache) # "null"
           THEN \E renderOk \in BOOLEAN, emitOk \in BOOLEAN :
                   renderAndSend(w, [s EXCEPT !.template = templateCache], renderOk, emitOk)
           ELSE /\ settle(w, [s EXCEPT !.pc = "tmpl_http"])
                /\ UNCHANGED cbVars
        /\ UNCHANGED <<cbEnv, redisUp, kvVars, queueVars, ghostVars>>

\* getTemplate, lines 37-64: the template service answers; any error makes
\* getTemplate return null, which the orchestrator reports as "Template not found"
TemplateHttp(w) ==
    LET s == wk[w]
    IN  /\ s.pc = "tmpl_http"
        /\ \E emitOk \in BOOLEAN :
              \/ settle(w, [s EXCEPT !.template = "found", !.pc = "tmpl_cache_set"])
              \/ settle(w,
                           catch(s, "Template not found", "template_not_found", emitOk))
              \/ settle(w,
                           catch(s, "Template not found", "template_lookup_error", emitOk))
        /\ UNCHANGED <<cbVars, cbEnv, redisUp, kvVars, queueVars, ghostVars>>

\* getTemplate, lines 49-64: the template:<code> write resolves, or throws and
\* getTemplate returns null
TemplateCacheSet(w) ==
    LET s == wk[w]
    IN  /\ s.pc = "tmpl_cache_set"
        /\ \E renderOk \in BOOLEAN, emitOk \in BOOLEAN :
              IF redisUp
              THEN /\ templateCache' = "found"
                   /\ renderAndSend(w, s, renderOk, emitOk)
              ELSE /\ templateCache' = templateCache
                   /\ settle(w,
                                catch(s, "Template not found", "template_cache_write_error",
                                      emitOk))
                   /\ UNCHANGED cbVars
        /\ UNCHANGED <<cbEnv, redisUp, processed, retry, statusCache, userCache,
                       queueVars, ghostVars>>

\* sendEmail, lines 89-108, and processEmailNotification, lines 101-105:
\* transporter.sendMail resolves with message id `id`
TransportAccepts(w, id) ==
    LET s == wk[w]
    IN  /\ s.pc = "send_mail"
        /\ executeEnd(w, TRUE, "sent")
        /\ \E emitOk \in BOOLEAN :
              settle(w,
                        updateStatus([s EXCEPT !.sent = id, !.result = Success(id)],
                                     "delivered", emitOk, "mark_set"))
        /\ sends' = [sends EXCEPT ![s.req] = @ + 1]
        /\ consecFail' = 0
        /\ UNCHANGED <<now, resets, redisUp, kvVars, queueVars,
                       requeues, sendFails, marks, overlap, idemFault, expired>>

\* sendEmail, lines 109-124, and processEmailNotification, lines 112-120:
\* transporter.sendMail rejects; the operation returns {success: false, error}
TransportRefuses(w) ==
    LET s == wk[w]
    IN  /\ s.pc = "send_mail"
        /\ executeEnd(w, TRUE, "send_failed")
        /\ \E emitOk \in BOOLEAN :
              settle(w,
                        updateStatus([s EXCEPT !.sent = "refused",
                                               !.result = Failure("send_error"),
                                               !.cause = "transport_error"],
                                     "failed", emitOk, "retry_get"))
        /\ sendFails' = [sendFails EXCEPT ![s.req] = @ + 1]
        /\ consecFail' = IF consecFail < FAILURE_THRESHOLD THEN consecFail + 1 ELSE consecFail
        /\ UNCHANGED <<now, resets, redisUp, kvVars, queueVars,
                       requeues, sends, marks, overlap, idemFault, expired>>

\* markAsProcessed, and processEmailNotification, lines 106-141: the write of
\* processed:<request_id> resolves and the result is returned, or it throws
\* into the catch block
MarkSet(w) ==
    LET s == wk[w]
    IN  /\ s.pc = "mark_set"
        /\ \E emitOk \in BOOLEAN :
              IF redisUp
              THEN /\ processed' = [processed EXCEPT ![s.req] = s.result.message_id]
                   /\ marks' = [marks EXCEPT ![s.req] = @ + 1]
                   /\ settle(w, returned(s))
              ELSE /\ UNCHANGED <<processed, marks>>
                   /\ settle(w, catch(s, "redis_error", "mark_error", emitOk))
        /\ UNCHANGED <<cbVars, cbEnv, redisUp, retry, statusCache, userCache, templateCache,
                       queueVars, requeues, sends, sendFails, overlap, idemFault, expired>>

\* handleEmailNotification, lines 34-44: the retry:<request_id> read of shouldRetry
\* resolves; nack with requeue puts the message back in the queue
RetryGet(w) ==
    LET s == wk[w]
    IN  /\ s.pc = "retry_get"
        /\ IF shouldRetry(s.req)
           THEN /\ settle(w, [s EXCEPT !.ack = "nack_requeue", !.pc = "idle"])
                /\ ready' = [ready EXCEPT ![s.req] = @ + 1]
                /\ requeues' = [requeues EXCEPT ![s.req] = @ + 1]
           ELSE /\ settle(w, [s EXCEPT !.ack = "nack_dlq", !.pc = "idle"])
                /\ UNCHANGED <<ready, requeues>>
        /\ UNCHANGED <<cbVars, cbEnv, redisUp, kvVars, published, deliveries,
                       sends, sendFails, marks, overlap, idemFault, expired>>

\* ------------------------------------------------------------------------
\* RetryService driven directly by its callers
\* ------------------------------------------------------------------------
\* the attempt_count stored under retry:<request_id>
storedAttemptCount(r) ==
    IF retry[r] = << >> THEN 0 ELSE retry[r][1].attempt_count

\* recordRetry(r, e) is called: the read of retry:<request_id> is issued
CallRecordRetry(w, r, e, max) ==
    /\ wk[w].pc = "idle"
    /\ storedAttemptCount(r) < max
    /\ \A v \in Workers :
          IF wk[v].retryData = << >> THEN TRUE
          ELSE wk[v].retryData[1].attempt_count < max
    /\ wk' = [wk EXCEPT ![w] = [IdleWorker EXCEPT !.pc = "rr_get", !.req = r, !.error = e]]
    /\ UNCHANGED <<cbVars, cbEnv, redisUp, kvVars, queueVars, last, ghostVars>>

\* recordRetry, lines 39-65: the read resolves (null when the client call throws),
\* the metadata is updated and its write is issued
RecordRetryGet(w) ==
    LET s == wk[w]
        existing == IF redisUp THEN retry[s.req] ELSE << >>
    IN  /\ s.pc = "rr_get"
        /\ \E rnd \in 0 .. RandomSteps - 1 :
              wk' = [wk EXCEPT ![w] =
                       [s EXCEPT !.pc = "rr_set",
                                 !.retryData =
                                     <<retryDataAfter(existing, s.req, s.error, now, rnd)>>]]
        /\ UNCHANGED <<cbVars, cbEnv, redisUp, kvVars, queueVars, last, ghostVars>>

\* recordRetry, lines 65-69: the write of retry:<request_id> resolves, or throws
\* and recordRetry rejects
RecordRetrySet(w) ==
    LET s == wk[w]
    IN  /\ s.pc = "rr_set"
        /\ retry' = IF redisUp THEN [retry EXCEPT ![s.req] = s.retryData] ELSE retry
        /\ wk' = [wk EXCEPT ![w] = IdleWorker]
        /\ UNCHANGED <<cbVars, cbEnv, redisUp, processed, statusCache, userCache,
                       templateCache, queueVars, last, ghostVars>>

\* ------------------------------------------------------------------------
\* The environment of the consumer
\* ------------------------------------------------------------------------
\* the store becomes unreachable: Redis client calls throw
RedisFails ==
    /\ redisUp
    /\ redisUp' = FALSE
    /\ UNCHANGED <<cbVars, cbEnv, kvVars, queueVars, wkVars, ghostVars>>

RedisRecovers ==
    /\ ~redisUp
    /\ redisUp' = TRUE
    /\ UNCHANGED <<cbVars, cbEnv, kvVars, queueVars, wkVars, ghostVars>>

\* the 24 h expiry of processed:<request_id> (markAsProcessed, line 163)
ProcessedExpires(r) ==
    /\ processed[r] # "null"
    /\ processed' = [processed EXCEPT ![r] = "null"]
    /\ expired' = [expired EXCEPT ![r] = TRUE]
    /\ UNCHANGED <<cbVars, cbEnv, redisUp, retry, statusCache, userCache, templateCache,
                   queueVars, wkVars, requeues, sends, sendFails, marks, overlap, idemFault>>

\* the 24 h expiry of retry:<request_id> (recordRetry, line 65)
RetryExpires(r) ==
    /\ retry[r] # << >>
    /\ retry' = [retry EXCEPT ![r] = << >>]
    /\ UNCHANGED <<cbVars, cbEnv, redisUp, processed, statusCache, userCache, templateCache,
                   queueVars, wkVars, ghostVars>>

\* the expiry of user:<id> and template:<code> (CACHE_TTL)
UserCacheExpires ==
    /\ userCache # "null"
    /\ userCache' = "null"
    /\ UNCHANGED <<cbVars, cbEnv, redisUp, processed, retry, statusCache, templateCache,
                   queueVars, wkVars, ghostVars>>

TemplateCacheExpires ==
    /\ templateCache # "null"
    /\ templateCache' = "null"
    /\ UNCHANGED <<cbVars, cbEnv, redisUp, processed, retry, statusCache, userCache,
                   queueVars, wkVars, ghostVars>>

Init ==
    /\ now = 0
    /\ circuits = [n \in CircuitNames |-> 0]
    /\ heap = << >>
    /\ resets = 0
    /\ cbPc = [c \in Workers |-> "idle"]
    /\ cbName = [c \in Workers |-> "none"]
    /\ cbRef = [c \in Workers |-> 0]
    /\ cbResult = [c \in Workers |-> "none"]
    /\ streak = << >>
    /\ cbTrial = [c \in Workers |-> -1]
    /\ consecFail = 0
    /\ redisUp = TRUE
    /\ processed = [r \in RequestIds |-> "null"]
    /\ retry = [r \in RequestIds |-> << >>]
    /\ statusCache = [r \in RequestIds |-> "null"]
    /\ userCache = "null"
    /\ templateCache = "null"
    /\ ready = [r \in RequestIds |-> 0]
    /\ published = [r \in RequestIds |-> 0]
    /\ deliveries = 0
    /\ wk = [w \in Workers |-> IdleWorker]
    /\ last = IdleWorker
    /\ requeues = [r \in RequestIds |-> 0]
    /\ sends = [r \in RequestIds |-> 0]
    /\ sendFails = [r \in RequestIds |-> 0]
    /\ marks = [r \in RequestIds |-> 0]
    /\ overlap = [r \in RequestIds |-> FALSE]
    /\ idemFault = [r \in RequestIds |-> FALSE]
    /\ expired = [r \in RequestIds |-> FALSE]

\* the consumer with its environment
Next ==
    \/ \E r \in RequestIds : Publish(r)
    \/ \E w \in Workers, r \in RequestIds : Deliver(w, r, MaxDeliveries)
    \/ \E w \in Workers : IdemGet(w)
    \/ \E w \in Workers : StatusCacheSet(w)
    \/ \E w \in Workers : UserCacheGet(w)
    \/ \E w \in Workers : UserHttp(w)
    \/ \E w \in Workers : UserCacheSet(w)
    \/ \E w \in Workers : TemplateCacheGet(w)
    \/ \E w \in Workers : TemplateHttp(w)
    \/ \E w \in Workers : TemplateCacheSet(w)
    \/ \E w \in Workers, id \in MessageIds : TransportAccepts(w, id)
    \/ \E w \in Workers : TransportRefuses(w)
    \/ \E w \in Workers : MarkSet(w)
    \/ \E w \in Workers : RetryGet(w)
    \/ RedisFails
    \/ RedisRecovers
    \/ \E r \in RequestIds : ProcessedExpires(r)
    \/ UserCacheExpires
    \/ TemplateCacheExpires

Spec == Init /\ [][Next]_vars

\* the consumer with prefetch 1: worker "w1" handles the deliveries one after another
NextSeq ==
    \/ \E r \in RequestIds : Publish(r)
    \/ \E r \in RequestIds : Deliver("w1", r, MaxSeqDeliveries)
    \/ IdemGet("w1")
    \/ StatusCacheSet("w1")
    \/ UserCacheGet("w1")
    \/ UserHttp("w1")
    \/ UserCacheSet("w1")
    \/ TemplateCacheGet("w1")
    \/ TemplateHttp("w1")
    \/ TemplateCacheSet("w1")
    \/ \E id \in MessageIds : TransportAccepts("w1", id)
    \/ TransportRefuses("w1")
    \/ MarkSet("w1")
    \/ RetryGet("w1")
    \/ RedisFails
    \/ RedisRecovers
    \/ \E r \in RequestIds : ProcessedExpires(r)
    \/ UserCacheExpires
    \/ TemplateCacheExpires

SpecSeq == Init /\ [][NextSeq]_vars

\* CircuitBreakerService under concurrent execute calls on the name "x"
NextCB ==
    \/ \E c \in Workers : CallExecute(c)
    \/ \E c \in Workers : OperationResolves(c)
    \/ \E c \in Workers : OperationRejects(c)
    \/ resetCircuit("x")
    \/ \E d \in TickSteps : Tick(d)

SpecCB == Init /\ [][NextCB]_vars

\* EmailSender under concurrent sendEmail calls
NextSend ==
    \/ \E c \in Workers : CallSendEmail(c)
    \/ \E c \in Workers : SendMailResolves(c)
    \/ \E c \in Workers : SendMailRejects(c)
    \/ resetCircuit("email_send")
    \/ \E d \in TickSteps : Tick(d)

SpecSend == Init /\ [][NextSend]_vars

\* RetryService under concurrent recordRetry calls
NextRetry ==
    \/ \E w \in Workers, r \in RequestIds, e \in Errors :
          CallRecordRetry(w, r, e, MaxAttemptCount)
    \/ \E w \in Workers : RecordRetryGet(w)
    \/ \E w \in Workers : RecordRetrySet(w)
    \/ RedisFails
    \/ RedisRecovers
    \/ \E r \in RequestIds : RetryExpires(r)

SpecRetry == Init /\ [][NextRetry]_vars

\* RetryService under recordRetry calls made one after another by one task, while
\* time passes between them
NextRetrySeq ==
    \/ \E r \in RequestIds, e \in SeqErrors :
          CallRecordRetry("w1", r, e, MaxSeqAttemptCount)
    \/ RecordRetryGet("w1")
    \/ RecordRetrySet("w1")
    \/ RedisFails
    \/ RedisRecovers
    \/ \E r \in RequestIds : RetryExpires(r)
    \/ \E d \in TickSteps : Tick(d)

SpecRetrySeq == Init /\ [][NextRetrySeq]_vars

\* the consumer with prefetch 1 (worker "w1") while another task ("w2") calls
\* RetryService.recordRetry
NextCtl ==
    \/ \E r \in RequestIds : Publish(r)
    \/ \E r \in RequestIds : Deliver("w1", r, MaxRetryDeliveries)
    \/ IdemGet("w1")
    \/ StatusCacheSet("w1")
    \/ UserCacheGet("w1")
    \/ UserHttp("w1")
    \/ UserCacheSet("w1")
    \/ TemplateCacheGet("w1")
    \/ TemplateHttp("w1")
    \/ TemplateCacheSet("w1")
    \/ \E id \in MessageIds : TransportAccepts("w1", id)
    \/ TransportRefuses("w1")
    \/ MarkSet("w1")
    \/ RetryGet("w1")
    \/ \E r \in RequestIds, e \in Errors : CallRecordRetry("w2", r, e, MaxCtlAttemptCount)
    \/ RecordRetryGet("w2")
    \/ RecordRetrySet("w2")
    \/ RedisFails
    \/ RedisRecovers

SpecCtl == Init /\ [][NextCtl]_vars

\* the consumer with prefetch 1 (worker "w1") while another task ("w2") runs
\* failing operations through the "email_send" circuit
NextOpen ==
    \/ \E r \in RequestIds : Publish(r)
    \/ \E r \in RequestIds : Deliver("w1", r, MaxRetryDeliveries)
    \/ IdemGet("w1")
    \/ StatusCacheSet("w1")
    \/ UserCacheGet("w1")
    \/ UserHttp("w1")
    \/ UserCacheSet("w1")
    \/ TemplateCacheGet("w1")
    \/ TemplateHttp("w1")
    \/ TemplateCacheSet("w1")
    \/ \E id \in MessageIds : TransportAccepts("w1", id)
    \/ TransportRefuses("w1")
    \/ MarkSet("w1")
    \/ RetryGet("w1")
    \/ CallExecuteEmailSend("w2")
    \/ EmailSendOperationRejects("w2")
    \/ RedisFails
    \/ RedisRecovers

SpecOpen == Init /\ [][NextOpen]_vars

\* the state after construction, seen by the callers in Callers
InitCallers ==
    /\ now = 0
    /\ circuits = [n \in CircuitNames |-> 0]
    /\ heap = << >>
    /\ resets = 0
    /\ cbPc = [c \in Callers |-> "idle"]
    /\ cbName = [c \in Callers |-> "none"]
    /\ cbRef = [c \in Callers |-> 0]
    /\ cbResult = [c \in Callers |-> "none"]
    /\ streak = << >>
    /\ cbTrial = [c \in Callers |-> -1]
    /\ consecFail = 0
    /\ redisUp = TRUE
    /\ processed = [r \in RequestIds |-> "null"]
    /\ retry = [r \in RequestIds |-> << >>]
    /\ statusCache = [r \in RequestIds |-> "null"]
    /\ userCache = "null"
    /\ templateCache = "null"
    /\ ready = [r \in RequestIds |-> 0]
    /\ published = [r \in RequestIds |-> 0]
    /\ deliveries = 0
    /\ wk = [w \in Workers |-> IdleWorker]
    /\ last = IdleWorker
    /\ requeues = [r \in RequestIds |-> 0]
    /\ sends = [r \in RequestIds |-> 0]
    /\ sendFails = [r \in RequestIds |-> 0]
    /\ marks = [r \in RequestIds |-> 0]
    /\ overlap = [r \in RequestIds |-> FALSE]
    /\ idemFault = [r \in RequestIds |-> FALSE]
    /\ expired = [r \in RequestIds |-> FALSE]

\* CircuitBreakerService under more than HALF_OPEN_MAX_CALLS concurrent execute
\* calls on the name "x"
NextHalfOpen ==
    \/ \E c \in Callers : CallExecute(c)
    \/ \E c \in Callers : OperationResolves(c)
    \/ \E c \in Callers : OperationRejects(c)
    \/ \E d \in TickSteps : Tick(d)

SpecHalfOpen == InitCallers /\ [][NextHalfOpen]_vars

\* ------------------------------------------------------------------------
\* Properties
\* ------------------------------------------------------------------------
\* worker w's invocation ends in this step as a duplicate: {success: true,
\* message_id: "duplicate"} is returned and acknowledged, nothing was emitted, no
\* lookup or send was started and no Redis key or circuit changed
DuplicateReturn(w) ==
    /\ wk'[w] = IdleWorker
    /\ last' = [wk[w] EXCEPT !.result = Success("duplicate"), !.ack = "ack", !.pc = "idle"]
    /\ last'.emits = << >>
    /\ UNCHANGED <<kvVars, cbVars, sends, sendFails, marks>>

C3_AtMostOneSend ==
    \A r \in RequestIds : (~expired[r] /\ ~overlap[r] /\ ~idemFault[r]) => sends[r] <= 1

\* C4: an invocation in which the transport accepted the message returns
\* {success: true, message_id: <the transport's id>}, has emitted PENDING and then
\* DELIVERED and never FAILED, and has stored processed:<request_id>
C4_AcceptedSendSucceeds ==
    last.sent \in MessageIds =>
        /\ last.result = Success(last.sent)
        /\ last.emits = <<"pending", "delivered">>
        /\ (processed[last.req] # "null" \/ expired[last.req])

\* C5: a message whose every delivery ended in a send failure is requeued at
\* most MAX_ATTEMPTS times
C5_RequeueBounded ==
    \A r \in RequestIds :
        (published[r] <= 1 /\ sendFails[r] = requeues[r]) => requeues[r] <= MAX_RETRY_ATTEMPTS

\* C6: when no invocation for request id r is in progress, the stored
\* attempt_count of r equals the number of invocations for r that ended in a send
\* failure
C6_AttemptCountTracksSendFailures ==
    \A r \in RequestIds :
        (\A w \in Workers : wk[w].req # r) => storedAttemptCount(r) = sendFails[r]

\* C7: an invocation that failed because the user was not found, the user's email
\* preference is off or the template was not found does not requeue its message
C7_TerminalFailureNotRequeued ==
    last.cause \in {"subject_not_found", "preference_disabled", "template_not_found"}
        => last.ack # "nack_requeue"

\* the circuit stored under a name, when there is one
circuitOf(name) == heap[circuits[name]]

\* C8: after FAILURE_THRESHOLD consecutive sendEmail calls whose transport send
\* failed the "email_send" circuit is OPEN
C8_OpensAfterTransportFailures ==
    (consecFail >= FAILURE_THRESHOLD /\ resets = 0)
        => (circuits["email_send"] # 0 /\ circuitOf("email_send").state = "OPEN")

\* C9: when an operation fails on a circuit that is CLOSED, failure_count grows by
\* one; if it reaches FAILURE_THRESHOLD the circuit is OPEN with next_attempt_time
\* = now + TIMEOUT, else it stays CLOSED
C9_FailureOnClosed ==
    [][\A w \in Workers :
          (cbPc[w] = "running" /\ cbPc'[w] = "idle" /\ cbResult'[w] = "error"
             /\ heap[cbRef[w]].state = "CLOSED")
              => LET old == heap[cbRef[w]]
                     new == heap'[cbRef[w]]
                 IN  /\ new.failure_count = old.failure_count + 1
                     /\ new.success_count = old.success_count
                     /\ IF new.failure_count >= FAILURE_THRESHOLD
                        THEN /\ new.failure_count = FAILURE_THRESHOLD
                             /\ new.state = "OPEN"
                             /\ new.next_attempt_time = now + TIMEOUT
                        ELSE /\ new.state = "CLOSED"
                             /\ new.next_attempt_time = old.next_attempt_time]_vars

C9_Witness ==
    /\ circuits["x"] # 0
    /\ circuitOf("x").state = "OPEN"
    /\ circuitOf("x").failure_count = FAILURE_THRESHOLD
    /\ circuitOf("x").next_attempt_time = now + TIMEOUT
    /\ \E w \in Workers : cbResult[w] = "error"

\* C10: an execute call on a circuit that is OPEN, made before next_attempt_time,
\* is rejected: the operation is not started and no circuit changes
C10_RejectedWhileOpen ==
    [][\A w \in Workers :
          (/\ circuits["x"] # 0
           /\ circuitOf("x").state = "OPEN"
           /\ now < circuitOf("x").next_attempt_time
           /\ cbPc[w] = "idle"
           /\ <<cbPc[w], cbResult[w]>> # <<cbPc'[w], cbResult'[w]>>)
              => /\ cbResult'[w] = "rejected"
                 /\ cbPc'[w] = "idle"
                 /\ UNCHANGED <<circuits, heap>>]_vars

C10_Witness ==
    /\ circuits["x"] # 0
    /\ circuitOf("x").state = "OPEN"
    /\ now < circuitOf("x").next_attempt_time
    /\ now > 0
    /\ \E w \in Workers : cbResult[w] = "rejected" /\ cbPc[w] = "idle"

\* C11: an execute call on a circuit that is OPEN, made when now >= next_attempt_time,
\* sets the circuit to HALF_OPEN with success_count = 0, changes nothing else of
\* it, and starts the operation
C11_AdmittedAfterTimeout ==
    [][\A w \in Workers :
          (/\ circuits["x"] # 0
           /\ circuitOf("x").state = "OPEN"
           /\ now >= circuitOf("x").next_attempt_time
           /\ cbPc[w] = "idle"
           /\ <<cbPc[w], cbResult[w]>> # <<cbPc'[w], cbResult'[w]>>)
              => /\ cbPc'[w] = "running"
                 /\ cbRef'[w] = circuits["x"]
                 /\ circuits' = circuits
                 /\ heap' = [heap EXCEPT ![circuits["x"]] =
                               [@ EXCEPT !.state = "HALF_OPEN", !.success_count = 0]]]_vars

C11_Witness ==
    /\ circuits["x"] # 0
    /\ circuitOf("x").state = "HALF_OPEN"
    /\ circuitOf("x").success_count = 0
    /\ circuitOf("x").failure_count = FAILURE_THRESHOLD
    /\ now >= circuitOf("x").next_attempt_time
    /\ \E w \in Workers : cbPc[w] = "running" /\ cbRef[w] = circuits["x"]

\* C12: when an operation succeeds on a circuit that is HALF_OPEN, success_count
\* grows by one; the success that makes it reach SUCCESS_THRESHOLD leaves the
\* circuit CLOSED with failure_count = 0 and success_count = 0, an earlier one
\* leaves it HALF_OPEN
C12_SuccessOnHalfOpen ==
    [][\A w \in Workers :
          (cbPc[w] = "running" /\ cbPc'[w] = "idle" /\ cbResult'[w] = "ok"
             /\ heap[cbRef[w]].state = "HALF_OPEN")
              => LET old == heap[cbRef[w]]
                     new == heap'[cbRef[w]]
                 IN  /\ new.failure_count = 0
                     /\ new.next_attempt_time = old.next_attempt_time
                     /\ IF old.success_count + 1 >= SUCCESS_THRESHOLD
                        THEN new.state = "CLOSED" /\ new.success_count = 0
                        ELSE new.state = "HALF_OPEN"
                             /\ new.success_count = old.success_count + 1]_vars

C12_Witness ==
    /\ circuits["x"] # 0
    /\ resets = 0
    /\ circuitOf("x").state = "CLOSED"
    /\ circuitOf("x").next_attempt_time > 0
    /\ circuitOf("x").failure_count = 0
    /\ circuitOf("x").success_count = 0
    /\ \E w \in Workers : cbResult[w] = "ok"

\* C13: when an operation fails on a circuit that is HALF_OPEN, the circuit is
\* OPEN with next_attempt_time = now + TIMEOUT and success_count = 0, whatever
\* its failure_count
C13_FailureOnHalfOpen ==
    [][\A w \in Workers :
          (cbPc[w] = "running" /\ cbPc'[w] = "idle" /\ cbResult'[w] = "error"
             /\ heap[cbRef[w]].state = "HALF_OPEN")
              => LET old == heap[cbRef[w]]
                     new == heap'[cbRef[w]]
                 IN  /\ new.state = "OPEN"
                     /\ new.next_attempt_time = now + TIMEOUT
                     /\ new.success_count = 0
                     /\ new.failure_count = old.failure_count + 1]_vars

C13_Witness ==
    /\ circuits["x"] # 0
    /\ resets = 0
    /\ circuitOf("x").state = "OPEN"
    /\ circuitOf("x").failure_count >= 1
    /\ circuitOf("x").failure_count < FAILURE_THRESHOLD
    /\ circuitOf("x").next_attempt_time = now + TIMEOUT
    /\ now > 0
    /\ \E w \in Workers : cbResult[w] = "error"

failureReported(s) ==
    /\ ~s.result.success
    /\ s.result.error # ""
    /\ s.emits # << >>
    /\ s.emits[Len(s.emits)] = "failed"

\* C15: processEmailNotification always returns: an invocation that has left it
\* holds a result, and a failure result carries an error text and follows a
\* FAILED status update
C15_AlwaysReturnsResult ==
    /\ \A w \in Workers :
          wk[w].pc \in {"failed_set", "retry_get"} => failureReported(wk[w])
    /\ last.req # "none" =>
          /\ last.ack \in {"ack", "nack_requeue", "nack_dlq"}
          /\ last.result.success \/ failureReported(last)

C15_Witness ==
    /\ last.cause = "mark_error"
    /\ last.emits = <<"pending", "delivered", "failed">>
    /\ last.result = Failure("redis_error")
    /\ last.ack = "nack_requeue"

\* the status a worker's latest updateStatus call reported
latestStatus(s) == s.emits[Len(s.emits)]

\* where processEmailNotification goes on after updateStatus(status)
afterStatus(status) ==
    CASE status = "pending" -> "user_cache_get"
      [] status = "delivered" -> "mark_set"
      [] OTHER -> "retry_get"

\* C16: a status update never changes the course of the call.  When the emit
\* throws, the call goes on at once where it would after the update; when the
\* status:<id> write resolves or throws, the call goes on there with its result,
\* its send and the stored records untouched
C16_StatusFailureSwallowed ==
    [][\A w \in Workers :
          /\ (inHandler(wk[w]) /\ inHandler(wk'[w])
                /\ Len(wk'[w].emits) > Len(wk[w].emits))
                => /\ Len(wk'[w].emits) = Len(wk[w].emits) + 1
                   /\ wk'[w].pc \in {statusSetPc(latestStatus(wk'[w])),
                                     afterStatus(latestStatus(wk'[w]))}
          /\ (wk[w].pc \in {"pending_set", "delivered_set", "failed_set"}
                /\ wk'[w] # wk[w])
                => /\ wk'[w] = [wk[w] EXCEPT !.pc = afterStatus(latestStatus(wk[w]))]
                   /\ UNCHANGED <<processed, marks, sends, sendFails, cbVars>>]_vars

C16_Witness ==
    /\ last.result = Success("m1")
    /\ last.emits = <<"pending", "delivered">>
    /\ statusCache[last.req] = "null"
    /\ processed[last.req] = "m1"
    /\ sends[last.req] = 1

\* C17: no invocation fails because the write of user:<id> or of template:<code>
\* to the cache failed
C17_CacheWriteFailureHarmless ==
    last.cause \notin {"user_cache_write_error", "template_cache_write_error"}

\* the transport send was invoked in the call
sendInvoked(s) == s.pc = "send_mail" \/ s.sent # "none"

\* the checks before the send passed in the call: PENDING is only reported after
\* the idempotency check found nothing
checksPassed(s) ==
    /\ s.emits # << >>
    /\ s.user = "enabled"
    /\ s.template = "found"

\* C20 as stated: the send is invoked only after the four checks passed, and a
\* call in which one of them did not pass returns a failure without a send
C20_SendOnlyAfterChecks ==
    /\ \A w \in Workers : sendInvoked(wk[w]) => checksPassed(wk[w])
    /\ sendInvoked(last) => checksPassed(last)
    /\ (last.req # "none" /\ ~checksPassed(last))
          => (~last.result.success /\ ~sendInvoked(last))

\* C20 amended: the send is invoked only after the four checks passed; a call in
\* which one of them did not pass does not send, and returns a failure unless
\* the idempotency check found the request processed, when it returns the
\* duplicate success
C20_SendOnlyAfterChecksOrDuplicate ==
    /\ \A w \in Workers : sendInvoked(wk[w]) => checksPassed(wk[w])
    /\ sendInvoked(last) => checksPassed(last)
    /\ (last.req # "none" /\ ~checksPassed(last))
          => /\ ~sendInvoked(last)
             /\ IF last.emits = << >>
                THEN last.result = Success("duplicate")
                ELSE ~last.result.success

C20_Witness ==
    /\ last.cause = "preference_disabled"
    /\ last.user = "disabled"
    /\ ~last.result.success
    /\ ~sendInvoked(last)
    /\ sends[last.req] = 0

\* the two ways the send step fails
SendFailures == {"breaker_open", "transport_error"}

OneTerminalStatus ==
    {<<"pending">>, <<"pending", "delivered">>, <<"pending", "failed">>}

\* C21: a call that passed the idempotency check reports PENDING first and then
\* one terminal status, DELIVERED or FAILED and never both
C21_PendingThenOneTerminal ==
    /\ \A w \in Workers :
          (inHandler(wk[w]) /\ wk[w].emits # << >>) => wk[w].emits \in OneTerminalStatus
    /\ last.emits # << >> => last.emits \in OneTerminalStatus \ {<<"pending">>}

\* the records of retry:<request_id> written or about to be written
retryRecords ==
    {retry[r][1] : r \in {q \in RequestIds : retry[q] # << >>}}
        \cup {wk[w].retryData[1] : w \in {v \in Workers : wk[v].retryData # << >>}}

\* min(1000 * 2^(n-1), 300000)
baseDelay(n) == IF 1000 * 2 ^ (n - 1) < 300000 THEN 1000 * 2 ^ (n - 1) ELSE 300000

C23_AttemptCountNeverDecreases ==
    [][\A r \in RequestIds :
          (retry[r] # << >> /\ retry'[r] # << >>)
              => retry'[r][1].attempt_count >= retry[r][1].attempt_count]_vars

\* C24: a call that was not rejected has its operation started once and stays in
\* flight until the operation settles; then the outcome is reported to the
\* circuit the call holds and to no other, and the call ends with the
\* operation's own result ("ok") or error ("error")
C24_OutcomeReportedThenPropagated ==
    [][\A w \in Workers :
          /\ (cbPc[w] = "idle" /\ cbPc'[w] = "running")
                => /\ cbResult'[w] = "none"
                   /\ cbRef'[w] = circuits'["x"]
          /\ (cbPc[w] = "running" /\ cbPc'[w] = "idle")
                => /\ cbResult'[w] \in {"ok", "error"}
                   /\ circuits' = circuits
                   /\ heap' = [heap EXCEPT ![cbRef[w]] =
                                 IF cbResult'[w] = "ok" THEN onSuccess(@)
                                 ELSE onFailure(@, now)]
                   /\ streak'[cbRef[w]] = IF cbResult'[w] = "ok" THEN 0
                                          ELSE streak[cbRef[w]] + 1]_vars

C24_Witness ==
    /\ circuits["x"] # 0
    /\ circuitOf("x").state = "CLOSED"
    /\ circuitOf("x").failure_count = 1
    /\ cbResult["w1"] = "ok"
    /\ cbResult["w2"] = "error"
    /\ cbPc["w1"] = "idle" /\ cbPc["w2"] = "idle"

\* C25: a success reported to a CLOSED circuit leaves it CLOSED with failure_count
\* 0, and a CLOSED circuit becomes OPEN only when FAILURE_THRESHOLD failures have
\* been reported to it since the last success (or since it was created)
C25_OpensAfterConsecutiveFailures ==
    [][/\ \A w \in Workers :
             (cbPc[w] = "running" /\ cbPc'[w] = "idle" /\ cbResult'[w] = "ok"
                /\ heap[cbRef[w]].state = "CLOSED")
                 => /\ heap'[cbRef[w]].state = "CLOSED"
                    /\ heap'[cbRef[w]].failure_count = 0
       /\ \A i \in 1 .. Len(heap) :
             (heap[i].state = "CLOSED" /\ heap'[i].state = "OPEN")
                 => streak'[i] = FAILURE_THRESHOLD]_vars

C25_Witness ==
    /\ circuits["x"] # 0
    /\ resets = 0
    /\ circuitOf("x").state = "OPEN"
    /\ circuitOf("x").failure_count = FAILURE_THRESHOLD
    /\ cbResult["w1"] = "ok"
    /\ cbResult["w2"] = "error"
    /\ now = 0

\* the state changes a CircuitBreaker object may undergo
AllowedTransitions ==
    {<<"CLOSED", "OPEN">>, <<"OPEN", "HALF_OPEN">>, <<"HALF_OPEN", "CLOSED">>,
     <<"HALF_OPEN", "OPEN">>}

\* C26: the state of a circuit changes only along CLOSED -> OPEN,
\* OPEN -> HALF_OPEN, HALF_OPEN -> CLOSED and HALF_OPEN -> OPEN, also with
\* operations in flight at the same time
C26_OnlyAllowedTransitions ==
    [][\A i \in 1 .. Len(heap) :
          heap'[i].state # heap[i].state
              => <<heap[i].state, heap'[i].state>> \in AllowedTransitions]_vars

C26_Witness ==
    /\ circuits["x"] # 0
    /\ circuitOf("x").state = "HALF_OPEN"
    /\ circuitOf("x").success_count = 1
    /\ \E w \in Workers : cbPc[w] = "running" /\ cbRef[w] = circuits["x"]

\* C27: the failure_count of every circuit equals the number of failures
\* reported to it since the last success reported to it (or since it was
\* created), for every interleaving of the calls in flight
C27_FailureCountExact ==
    \A i \in 1 .. Len(heap) : heap[i].failure_count = streak[i]

C27_Witness ==
    /\ circuits["x"] # 0
    /\ circuitOf("x").failure_count = 2
    /\ streak[circuits["x"]] = 2
    /\ cbPc["w1"] = "running" /\ cbRef["w1"] = circuits["x"]
    /\ cbResult["w2"] = "error"

\* C28: the idempotency check looks at processed:<request_id> only.  A call whose
\* check resolves while the key is absent passes it, reports PENDING and goes
\* on towards the send, whatever another worker is doing for the same request
\* id; two workers that both pass it this way both send
C28_CheckPassesWhileRecordAbsent ==
    [][\A w \in Workers :
          (wk[w].pc = "idem_get" /\ wk'[w] # wk[w] /\ processed[wk[w].req] = "null")
              => /\ wk'[w].emits = <<"pending">>
                 /\ wk'[w].pc \in {"pending_set", "user_cache_get"}]_vars

C28_Witness ==
    \E r \in RequestIds :
        /\ sends[r] = 2
        /\ marks[r] = 2
        /\ overlap[r]
        /\ requeues[r] = 0
        /\ ~idemFault[r] /\ ~expired[r]
        /\ \A w \in Workers : wk[w].pc = "idle"

\* C29: an invocation whose template lookup failed because the template service
\* timed out or could not be reached does not report "Template not found"
C29_LookupErrorNotReportedAbsent ==
    last.cause = "template_lookup_error" => last.result # Failure("Template not found")

\* the operations in flight that were admitted as probes of the present half-open
\* episode of circuit object i
trialsInFlight(i) ==
    {c \in DOMAIN cbPc : /\ cbPc[c] = "running"
                         /\ cbRef[c] = i
                         /\ cbTrial[c] = heap[i].next_attempt_time}

\* C30: while a circuit is HALF_OPEN at most HALF_OPEN_MAX_CALLS operations
\* admitted in that half-open episode are in flight
C30_HalfOpenCallsLimited ==
    \A i \in 1 .. Len(heap) :
        heap[i].state = "HALF_OPEN"
            => Cardinality(trialsInFlight(i)) <= HALF_OPEN_MAX_CALLS

C32_NotFoundLeavesRetryRecord ==
    [][\A w \in Workers :
          (/\ wk'[w] # wk[w]
           /\ inHandler(wk[w]) \/ inHandler(wk'[w])
           /\ wk[w].cause \in {"none", "subject_not_found"}
           /\ wk'[w].cause \in {"none", "subject_not_found"})
              => retry' = retry]_vars

\* a call has ended on the not-found path while a RetryRecord of its request id
\* is stored
C32_Witness ==
    /\ last.cause = "subject_not_found"
    /\ last.result = Failure("User not found")
    /\ last.ack # "none"
    /\ retry[last.req] # << >>

\* C33: a record is stored under processed:<request_id> only if the transport
\* has accepted a send for that request id before; and every write of it is made
\* by an invocation that holds a successful send result and has taken no failure
\* path (not-found, preference disabled, send failure, breaker open, exception)
C33_ProcessedOnlyAfterSend ==
    [][\A r \in RequestIds :
          /\ processed'[r] # "null" => sends'[r] >= 1
          /\ (processed'[r] # "null" /\ marks'[r] # marks[r])
                => \E w \in Workers :
                      /\ wk[w].pc = "mark_set"
                      /\ wk[w].req = r
                      /\ wk[w].result.success
                      /\ wk[w].result.message_id = processed'[r]
                      /\ wk[w].cause = "none"
                      /\ wk[w].sent # "none"]_vars

\* a first delivery has failed and was requeued without a record being written,
\* and the record is there after the second delivery was sent
C33_Witness ==
    /\ processed["r1"] # "null"
    /\ marks["r1"] = 1
    /\ sends["r1"] = 1
    /\ requeues["r1"] >= 1

\* C34: when the read of processed:<request_id> fails, checkIdempotency reports
\* not-processed whatever is stored: the call does not return the duplicate
\* result but emits PENDING and goes on to the subject lookup, from where the
\* pipeline runs up to the send
C34_FailedReadRunsPipeline ==
    [][\A w \in Workers :
          (wk[w].pc = "idem_get" /\ wk'[w].pc # "idem_get" /\ ~redisUp)
              => /\ ~checkIdempotency(wk[w].req)
                 /\ wk'[w].pc \in {"pending_set", "user_cache_get"}
                 /\ wk'[w].req = wk[w].req
                 /\ wk'[w].emits = <<"pending">>
                 /\ last' = last]_vars

\* deliveries handled one after another: the request was sent and recorded, and
\* a later delivery whose idempotency read failed was sent and recorded again
\* while the first record was still stored
C34_Witness ==
    /\ idemFault["r1"]
    /\ ~overlap["r1"]
    /\ ~expired["r1"]
    /\ processed["r1"] # "null"
    /\ sends["r1"] = 2
    /\ marks["r1"] = 2

\* C35: every circuit, whatever calls overlap on it, has success_count below
\* SUCCESS_THRESHOLD; a CLOSED circuit has failure_count below FAILURE_THRESHOLD
\* and success_count 0; an OPEN circuit has success_count 0
C35_CountersFitState ==
    \A i \in 1 .. Len(heap) :
        /\ heap[i].success_count < SUCCESS_THRESHOLD
        /\ heap[i].state = "CLOSED"
              => heap[i].failure_count < FAILURE_THRESHOLD /\ heap[i].success_count = 0
        /\ heap[i].state = "OPEN" => heap[i].success_count = 0

\* the circuit has opened, went HALF_OPEN after the cool-down, had failure_count
\* reset by a success and was reopened by a failure, all while a call admitted
\* when it was CLOSED is still in flight
C35_Witness ==
    /\ circuits["x"] # 0
    /\ circuitOf("x").state = "OPEN"
    /\ circuitOf("x").failure_count = 1
    /\ circuitOf("x").next_attempt_time > TIMEOUT
    /\ \E c \in Callers :
          cbPc[c] = "running" /\ cbRef[c] = circuits["x"] /\ cbTrial[c] = -1

\* C36: while a circuit stays OPEN its next_attempt_time does not change, and
\* the completion of an operation on an OPEN circuit (one that was started before
\* the circuit opened) leaves it OPEN
C36_OpenDeadlineFixed ==
    [][\A i \in 1 .. Len(heap) :
          heap[i].state = "OPEN"
              => /\ heap'[i].state = "OPEN"
                    => heap'[i].next_attempt_time = heap[i].next_attempt_time
                 /\ (\E c \in DOMAIN cbPc :
                        cbPc[c] = "running" /\ cbPc'[c] = "idle" /\ cbRef[c] = i)
                    => heap'[i].state = "OPEN"]_vars

\* C37: the success of an operation that was not admitted as a probe of the
\* present half-open episode (it was started while the circuit was CLOSED, or in
\* an earlier half-open episode) and completes while the circuit is HALF_OPEN
\* leaves success_count and the state of the circuit as they are
C37_OnlyProbesCount ==
    [][\A c \in DOMAIN cbPc :
          (/\ cbPc[c] = "running" /\ cbPc'[c] = "idle" /\ cbResult'[c] = "ok"
           /\ heap[cbRef[c]].state = "HALF_OPEN"
           /\ cbTrial[c] # heap[cbRef[c]].next_attempt_time)
              => /\ heap'[cbRef[c]].success_count = heap[cbRef[c]].success_count
                 /\ heap'[cbRef[c]].state = "HALF_OPEN"]_vars

\* C38: resetCircuit(name) removes the entry of the name and touches no circuit
\* object; the next execute on the name creates a new object that is CLOSED with
\* both counters 0, registers it and runs on it; and the completion of an
\* operation that holds another object than the registered one (it was started
\* before the reset) leaves the registered object as it is
C38_ResetGivesFreshRecord ==
    [][/\ resets' # resets => (circuits'["x"] = 0 /\ heap' = heap)
       /\ \A c \in DOMAIN cbPc :
             /\ (circuits["x"] = 0 /\ cbPc[c] = "idle" /\ cbPc'[c] = "running")
                   => /\ circuits'["x"] = Len(heap) + 1
                      /\ cbRef'[c] = circuits'["x"]
                      /\ heap'[circuits'["x"]] = NewCircuit
                      /\ \A i \in 1 .. Len(heap) : heap'[i] = heap[i]
             /\ (cbPc[c] = "running" /\ cbPc'[c] = "idle" /\ circuits["x"] # 0
                    /\ cbRef[c] # circuits["x"])
                   => /\ heap'[circuits["x"]] = heap[circuits["x"]]
                      /\ circuits' = circuits]_vars

\* two operations were started on the first object; after the reset one call
\* runs on the fresh record, which is untouched although both failures have been
\* reported to the first object
C38_Witness ==
    /\ resets = 1
    /\ Len(heap) = 2
    /\ circuits["x"] = 2
    /\ heap[2] = NewCircuit
    /\ heap[1].failure_count = 2
    /\ cbPc["w1"] = "running" /\ cbRef["w1"] = 2
    /\ cbResult["w2"] = "error"

====
